---- MODULE Spec2Model ----
(***************************************************************************)
(* Model of flight-event-throttler: the ring buffer                        *)
(* (internal/buffer/ring_buffer.go), the rate limiter and event processor  *)
(* (package processor) and the poller callback assembled in                *)
(* cmd/server/main.go.                                                     *)
(*                                                                         *)
(* Two specifications share the variables:                                 *)
(*   SpecRing  a single caller driving one RingBuffer through its API      *)
(*   SpecPipe  the assembled program: poller callback, forwarding loop,    *)
(*             token refill and shutdown                                   *)
(***************************************************************************)
EXTENDS Integers, Sequences, FiniteSets, TLC

\* ---------------------------------------------------------------- bounds
\* largest ring capacity explored
MaxCap == 3
\* number of distinct events pushed in one behaviour of SpecRing
MaxPush == 6
\* largest cfg.Buffer.Size explored in SpecPipe (ring capacity and channel capacity)
MaxSize == 2
\* largest cfg.RateLimit.BurstSize explored in SpecPipe
MaxBurst == 2
\* number of events the poller delivers in one behaviour of SpecPipe
MaxEvents == 4
\* largest batch one poll delivers
MaxBatch == 2
\* largest window (in clock ticks) and largest maxSize of a SlidingWindowBuffer
MaxWindow == 2
MaxWinSize == 2
\* number of events pushed and last clock value in one behaviour of SpecWindow
MaxWinPush == 4
MaxTime == 4
\* largest n passed to GetBatch / PopBatch and largest duration passed to
\* CountInLastDuration
MaxN == 3
\* largest capacity and number of events pushed in one behaviour of SpecLock
MaxLockCap == 2
MaxLockPush == 3
\* last clock value and largest sum of the statistics counters in one
\* behaviour of SpecLimiter
MaxLimTime == 2
MaxCount == 2
\* largest value eventsProcessed reaches in SpecMetrics
MaxProcessed == 2

\* the nil *model.FlightEvent; events are the positive integers, numbered in
\* the order they are created
Nil == 0

VARIABLES
    rb,        \* the RingBuffer struct: buffer, size, head, tail, count, isFull
    live,      \* history: events pushed and not yet popped, overwritten or cleared, oldest first
    nextId,    \* history: the next fresh event
    pushOnly,  \* history: TRUE while only Push has been called on rb
    op,        \* the last operation that completed
    ret,       \* what it returned
    chanCap,       \* bufferSize of NewEventProcessor: capacity of both channels
    inputChan,     \* EventProcessor.inputChan, the queued events, oldest first
    outputChan,    \* EventProcessor.outputChan
    epCancelled,   \* EventProcessor.ctx is done
    chClosed,      \* Stop has closed inputChan and outputChan
    loopPc,        \* where processEvents is: "select", "wait", "delay", "count", "send", "exited"
    loopEvent,     \* the event processEvents has taken from inputChan
    rl,            \* the RateLimiter: tokens, burst, eventsPerSec, processedCount, droppedCount
    m,             \* the Metrics counters main's callback updates
    pollCancelled, \* main's ctx is done: PollContinuously starts no further callback
    cbLeft,        \* events of the current poller batch the callback has not handled yet
    stopPc,        \* main's shutdown: "running", "cancelled", "waiting", "returned"
    panicked,      \* a goroutine panicked (send on closed channel): the process is gone
    admitted,      \* history: events for which the forwarding loop's Wait returned nil
    sw,            \* the SlidingWindowBuffer struct: events, windowSize, maxSize
    now,           \* the clock time.Now() reads
    arg,           \* the argument of the last SlidingWindowBuffer call (n or duration)
    expired,       \* history: the events an expiry sweep has removed from sw
    mu,            \* RingBuffer.mu, the sync.RWMutex: readers holding it, the writer that owns it
    gpc,           \* where each goroutine calling into the RingBuffer is
    garg,          \* the argument n of each goroutine's PopBatch call
    lim,           \* RateLimiter.limiter, the rate.Limiter: limit, burst, tokens, last, lastEvent
    wpc,           \* where the goroutine calling RateLimiter.Wait is: "idle", "sleeping", "granted"
    wres,          \* the Reservation that Wait call sleeps on
    ctxDone,       \* the context passed to Wait is done
    up,            \* whether an UpdateLimit call is in progress (it holds rl.mu), and the configuration the last one replaced
    hist,          \* history of the limiter's admissions
    midWait,       \* history: ep.ctx was cancelled while processEvents slept in rateLimiter.Wait with no token due
    mt,            \* the Metrics goroutines: where calculateRateMetrics and a Reset call are, and what the tick has loaded
    cb             \* where the poller callback is between slidingWin.Push and SetBufferSize, and the count it read

ringVars == <<rb, live, nextId, pushOnly>>
pipeVars == <<chanCap, inputChan, outputChan, epCancelled, chClosed, loopPc, loopEvent,
              rl, m, pollCancelled, cbLeft, stopPc, panicked, admitted, midWait>>
swVars == <<sw, now, arg, expired>>
lockVars == <<mu, gpc, garg>>
limVars == <<lim, wpc, wres, ctxDone, up, hist>>
metVars == <<mt, cb>>
vars == <<rb, live, nextId, pushOnly, op, ret, chanCap, inputChan, outputChan,
          epCancelled, chClosed, loopPc, loopEvent, rl, m, pollCancelled, cbLeft,
          stopPc, panicked, admitted, sw, now, arg, expired, mu, gpc, garg,
          lim, wpc, wres, ctxDone, up, hist, midWait, mt, cb>>

\* ------------------------------------------------------------ sequences
\* buf[lo], ..., buf[hi-1] as a sequence (empty when hi <= lo)
Slice(buf, lo, hi) == [i \in 1..(hi - lo) |-> buf[lo + i - 1]]

\* s without the entries equal to x
Without(s, x) == SelectSeq(s, LAMBDA y : y # x)

\* ---------------------------------------------------------- RingBuffer
NewRingBuffer(size) ==
    [buffer |-> [i \in 0..(size - 1) |-> Nil],
     size   |-> size,
     head   |-> 0,
     tail   |-> 0,
     count  |-> 0,
     isFull |-> FALSE]

\* Push with the eviction forgotten: tail stays where it is when the buffer is full
RBPushNoEvict(b, e) ==
    LET w == [b EXCEPT !.buffer[b.head] = e, !.head = (b.head + 1) % b.size]
    IN  IF b.isFull
        THEN w
        ELSE [w EXCEPT !.count = b.count + 1, !.isFull = (w.head = w.tail)]

RBPush(b, e) ==
    LET w == [b EXCEPT !.buffer[b.head] = e, !.head = (b.head + 1) % b.size]
    IN  IF b.isFull
        THEN [w EXCEPT !.tail = (b.tail + 1) % b.size]
        ELSE [w EXCEPT !.count = b.count + 1, !.isFull = (w.head = w.tail)]

\* Pop: the new struct and the returned event
RBPop(b) ==
    IF b.count = 0 /\ ~b.isFull
    THEN [rb |-> b, ret |-> Nil]
    ELSE LET t == [b EXCEPT !.buffer[b.tail] = Nil, !.tail = (b.tail + 1) % b.size]
         IN  [rb  |-> IF b.isFull
                      THEN [t EXCEPT !.isFull = FALSE]
                      ELSE [t EXCEPT !.count = b.count - 1],
              ret |-> b.buffer[b.tail]]

RBPeek(b) == IF b.count = 0 /\ ~b.isFull THEN Nil ELSE b.buffer[b.tail]

RBCount(b) == IF b.isFull THEN b.size ELSE b.count

RBIsFull(b) == b.isFull

RBIsEmpty(b) == b.count = 0 /\ ~b.isFull

RBClear(b) == NewRingBuffer(b.size)

\* GetAll returns nil (the empty slice) on an empty buffer
RBGetAll(b) ==
    IF RBIsEmpty(b) THEN <<>>
    ELSE IF b.isFull
         THEN Slice(b.buffer, b.tail, b.size) \o Slice(b.buffer, 0, b.head)
         ELSE IF b.head > b.tail
              THEN Slice(b.buffer, b.tail, b.head)
              ELSE Slice(b.buffer, b.tail, b.size) \o Slice(b.buffer, 0, b.head)

\* ------------------------------------------------- SlidingWindowBuffer
NewSlidingWindowBuffer(windowSize, maxSize) ==
    [events |-> <<>>, windowSize |-> windowSize, maxSize |-> maxSize]

\* removeExpired's scan from position i (1-based): the number of entries in
\* front of the first one whose timestamp is After(cutoffTime)
RECURSIVE FirstValid(_, _, _)
FirstValid(events, cutoffTime, i) ==
    IF i > Len(events) THEN Len(events)
    ELSE IF events[i].timestamp > cutoffTime THEN i - 1
         ELSE FirstValid(events, cutoffTime, i + 1)

\* a sweep that removes nothing
SWRemoveExpiredNever(s, t) == s

\* removeExpired at clock reading t
SWRemoveExpired(s, t) ==
    IF Len(s.events) = 0 THEN s
    ELSE LET firstValid == FirstValid(s.events, t - s.windowSize, 1)
         IN  IF firstValid > 0
             THEN [s EXCEPT !.events = SubSeq(s.events, firstValid + 1, Len(s.events))]
             ELSE s

\* Push that inserts the new entry at the front
SWPushFront(s, e, tSweep, tStamp) ==
    LET all == <<[event |-> e, timestamp |-> tStamp]>> \o SWRemoveExpired(s, tSweep).events
    IN  [s EXCEPT !.events = IF Len(all) > s.maxSize
                             THEN SubSeq(all, Len(all) - s.maxSize + 1, Len(all))
                             ELSE all]

\* Push that never truncates to maxSize
SWPushNoCap(s, e, tSweep, tStamp) ==
    [s EXCEPT !.events = Append(SWRemoveExpired(s, tSweep).events,
                                [event |-> e, timestamp |-> tStamp])]

\* Push: the sweep reads the clock at tSweep, the new entry is stamped with a
\* second reading tStamp
SWPush(s, e, tSweep, tStamp) ==
    LET all == Append(SWRemoveExpired(s, tSweep).events, [event |-> e, timestamp |-> tStamp])
    IN  [s EXCEPT !.events = IF Len(all) > s.maxSize
                             THEN SubSeq(all, Len(all) - s.maxSize + 1, Len(all))
                             ELSE all]

\* the events of the entries, in order
EventsOf(entries) == [i \in 1..Len(entries) |-> entries[i].event]

SWGetAll(s, t) ==
    [sw |-> SWRemoveExpired(s, t), ret |-> EventsOf(SWRemoveExpired(s, t).events)]

\* n clamped to the number of stored entries
Clamp(n, count) == IF n > count THEN count ELSE n

\* GetBatch: make([]*model.FlightEvent, 0, n) panics when n is negative
SWGetBatch(s, t, n) ==
    LET swept == SWRemoveExpired(s, t)
        k == Clamp(n, Len(swept.events))
    IN  IF k < 0
        THEN [sw |-> swept, ret |-> <<>>, panic |-> TRUE]
        ELSE [sw |-> swept, ret |-> EventsOf(SubSeq(swept.events, 1, k)), panic |-> FALSE]

\* PopBatch that returns the batch and leaves it in the buffer
SWPopBatchKeep(s, t, n) == SWGetBatch(s, t, n)

\* PopBatch: returns nil when n is 0 after clamping; make panics when n is negative
SWPopBatch(s, t, n) ==
    LET swept == SWRemoveExpired(s, t)
        k == Clamp(n, Len(swept.events))
    IN  IF k = 0
        THEN [sw |-> swept, ret |-> <<>>, panic |-> FALSE]
        ELSE IF k < 0
             THEN [sw |-> swept, ret |-> <<>>, panic |-> TRUE]
             ELSE [sw    |-> [swept EXCEPT !.events = SubSeq(swept.events, k + 1, Len(swept.events))],
                   ret   |-> EventsOf(SubSeq(swept.events, 1, k)),
                   panic |-> FALSE]

SWCount(s, t) ==
    [sw |-> SWRemoveExpired(s, t), ret |-> Len(SWRemoveExpired(s, t).events)]

SWIsEmpty(s, t) ==
    [sw |-> SWRemoveExpired(s, t), ret |-> (Len(SWRemoveExpired(s, t).events) = 0)]

SWClear(s) == [s EXCEPT !.events = <<>>]

\* CountInLastDuration's scan, from the front instead of from the back
RECURSIVE ForwardCount(_, _, _)
ForwardCount(events, cutoffTime, i) ==
    IF i > Len(events) THEN 0
    ELSE IF events[i].timestamp > cutoffTime
         THEN 1 + ForwardCount(events, cutoffTime, i + 1)
         ELSE 0

SWCountInLastDurationForward(s, t, duration) == ForwardCount(s.events, t - duration, 1)

\* CountInLastDuration's backward scan from position i, stopping at the first
\* entry that is not After(cutoffTime)
RECURSIVE BackwardCount(_, _, _)
BackwardCount(events, cutoffTime, i) ==
    IF i < 1 THEN 0
    ELSE IF events[i].timestamp > cutoffTime
         THEN 1 + BackwardCount(events, cutoffTime, i - 1)
         ELSE 0

SWCountInLastDuration(s, t, duration) ==
    BackwardCount(s.events, t - duration, Len(s.events))

\* GetEventsInRange that takes both ends of the range as included
SWGetEventsInRangeInclusive(s, start, end) ==
    EventsOf(SelectSeq(s.events, LAMBDA te : te.timestamp >= start /\ te.timestamp <= end))

\* GetEventsInRange: timestamp.After(start) && timestamp.Before(end), no sweep
SWGetEventsInRange(s, start, end) ==
    EventsOf(SelectSeq(s.events, LAMBDA te : te.timestamp > start /\ te.timestamp < end))

\* --------------------------------------------------------- RateLimiter
\* rate.NewLimiter starts with a full bucket
NewRateLimiter(eventsPerSecond, burstSize) ==
    [tokens         |-> burstSize,
     burst          |-> burstSize,
     eventsPerSec   |-> eventsPerSecond,
     processedCount |-> 0,
     droppedCount   |-> 0]

\* the bucket after the time for one more token has passed
RLRefill(l) == [l EXCEPT !.tokens = IF l.tokens < l.burst THEN l.tokens + 1 ELSE l.burst]

\* limiter.Wait takes the token it was waiting for
RLTake(l) == [l EXCEPT !.tokens = l.tokens - 1]

\* Wait's second critical section: processedCount++ under rl.mu
RLCountProcessed(l) == [l EXCEPT !.processedCount = l.processedCount + 1]

\* ------------------------------------------------------ EventProcessor
\* The cases of Submit's select that are ready. A send on a closed channel is
\* ready and panics; a send on an open channel is ready while the buffer has
\* room; <-ctx.Done() is ready once the context is cancelled. Go picks one of
\* the ready cases at random and takes default when none is ready.
SubmitReady(queue, cap, closed, cancelled) ==
    (IF closed THEN {"panic"} ELSE IF Len(queue) < cap THEN {"sent"} ELSE {})
        \cup (IF cancelled THEN {"done"} ELSE {})

SubmitOutcomes(queue, cap, closed, cancelled) ==
    IF SubmitReady(queue, cap, closed, cancelled) = {}
    THEN {"default"}
    ELSE SubmitReady(queue, cap, closed, cancelled)

\* what a step of the pipeline that is not a Submit call leaves in ret
NoResult == "none"

\* what Submit returns in each case
SubmitResult(outcome) ==
    CASE outcome = "sent" -> "true"
      [] outcome = "done" -> "false"
      [] outcome = "default" -> "false"
      [] outcome = "panic" -> "panic"

\* -------------------------------------------------------------- Metrics
NewMetrics ==
    [eventsReceived  |-> 0,
     eventsProcessed |-> 0,
     eventsDropped   |-> 0,
     eventsPerSecond |-> 0,
     lastSecondCount |-> 0,
     bufferSize      |-> 0,
     bufferCapacity  |-> 0]

\* the pipeline variables in SpecRing, where no pipeline is built
PipeNotBuilt ==
    /\ chanCap = 0
    /\ inputChan = <<>>
    /\ outputChan = <<>>
    /\ epCancelled = FALSE
    /\ chClosed = FALSE
    /\ loopPc = "exited"
    /\ loopEvent = Nil
    /\ rl = NewRateLimiter(1, 1)
    /\ m = NewMetrics
    /\ pollCancelled = TRUE
    /\ cbLeft = 0
    /\ stopPc = "returned"
    /\ panicked = FALSE
    /\ admitted = {}
    /\ midWait = FALSE

\* the pipeline variables other than the panic flag
pipeIdle == <<chanCap, inputChan, outputChan, epCancelled, chClosed, loopPc, loopEvent,
              rl, m, pollCancelled, cbLeft, stopPc, admitted, midWait>>

\* the sliding window variables where no SlidingWindowBuffer is built
WindowNotBuilt ==
    /\ sw = NewSlidingWindowBuffer(0, 0)
    /\ now = 0
    /\ arg = 0
    /\ expired = {}

\* mu.wOwner when no goroutine has called rb.mu.Lock()
NoOwner == "none"

\* the lock variables where the RingBuffer has a single caller
NoGoroutines ==
    /\ mu = [readers |-> 0, wOwner |-> NoOwner]
    /\ gpc = <<>>
    /\ garg = <<>>

\* ------------------------------------- rate.Limiter (golang.org/x/time/rate)
\* The token bucket RateLimiter delegates to.  lim.tokens is kept in units of
\* 1/TicksPerSecond token, so that a limit of r tokens per second adds r units
\* per clock tick; lim.last is the clock reading at which lim.tokens was
\* stored and lim.lastEvent the latest time a reservation acts at.
\* (rl.tokens is the same bucket in whole tokens, as SpecPipe sees it.)
Token == 2

\* the clock ticks in a second
TicksPerSecond == Token

\* the rates (events per second) and burst sizes a RateLimiter is given
Rates == {1, 2}
Bursts == {1, 2}

\* rate.NewLimiter: the bucket starts full
NewLimiter(limit, burst) ==
    [limit |-> limit, burst |-> burst, tokens |-> burst * Token, last |-> 0, lastEvent |-> 0]

\* the zero Reservation
NoReservation == [ok |-> FALSE, tokens |-> 0, timeToAct |-> 0, limit |-> 0]

\* no UpdateLimit call is in progress
NoUpdate == [pc |-> "idle", oldRate |-> 0, oldBurst |-> 0]

\* no race for a last token is being followed
NoRace == [on |-> FALSE, called |-> FALSE, grants |-> 0]

\* the history of a limiter nothing has been asked of
NoHistory ==
    [onlyAllow  |-> TRUE,    \* only Allow and GetStats have been called
     allowCalls |-> 0,       \* while onlyAllow: the number of Allow calls
     allowTrue  |-> 0,       \* while onlyAllow: how many of them returned true
     lastTrue   |-> 0,       \* while onlyAllow: when Allow last returned true
     updated    |-> FALSE,   \* UpdateLimit has been called
     grants     |-> <<>>,    \* before any UpdateLimit: when Allow returned true in the last second
     race       |-> NoRace,  \* the Allow / Wait calls since the clock last moved, if it left one whole token
     admitted   |-> 0,       \* admissions granted by Allow, AllowN and Wait
     reserved   |-> FALSE]   \* Reserve has been called

\* calculateRateMetrics between ticks, no Reset call in progress
NoTick == [pc |-> "idle", currentProcessed |-> 0, lastCount |-> 0, reset |-> "idle"]

\* the poller callback outside its slidingWin.Push ... SetBufferSize sequence
NoCallback == [pc |-> "idle", count |-> 0]

\* the Metrics goroutines and the callback position where they are not exercised
MetricsNotBuilt ==
    /\ mt = NoTick
    /\ cb = NoCallback

\* the limiter variables where no RateLimiter is exercised on its own
LimiterNotBuilt ==
    /\ lim = NewLimiter(1, 1)
    /\ wpc = "idle"
    /\ wres = NoReservation
    /\ ctxDone = FALSE
    /\ up = NoUpdate
    /\ hist = NoHistory


\* ----------------------------------------------- SpecRing: one caller
InitRing ==
    /\ \E c \in 1..MaxCap : rb = NewRingBuffer(c)
    /\ live = <<>>
    /\ nextId = 1
    /\ pushOnly = TRUE
    /\ op = "New"
    /\ ret = Nil
    /\ PipeNotBuilt
    /\ WindowNotBuilt
    /\ NoGoroutines
    /\ LimiterNotBuilt
    /\ MetricsNotBuilt

Push ==
    /\ nextId <= MaxPush
    /\ rb' = RBPush(rb, nextId)
    /\ live' = Append(Without(live, rb.buffer[rb.head]), nextId)
    /\ nextId' = nextId + 1
    /\ op' = "Push"
    /\ ret' = Nil
    /\ UNCHANGED <<limVars, metVars, swVars, lockVars, pushOnly, pipeVars>>

Pop ==
    /\ rb' = RBPop(rb).rb
    /\ ret' = RBPop(rb).ret
    /\ live' = Without(live, RBPop(rb).ret)
    /\ pushOnly' = FALSE
    /\ op' = "Pop"
    /\ UNCHANGED <<limVars, metVars, swVars, lockVars, nextId, pipeVars>>

Clear ==
    /\ rb' = RBClear(rb)
    /\ live' = <<>>
    /\ pushOnly' = FALSE
    /\ op' = "Clear"
    /\ ret' = Nil
    /\ UNCHANGED <<limVars, metVars, swVars, lockVars, nextId, pipeVars>>

GetAll ==
    /\ ret' = RBGetAll(rb)
    /\ op' = "GetAll"
    /\ UNCHANGED <<limVars, metVars, swVars, lockVars, ringVars, pipeVars>>

Peek ==
    /\ ret' = RBPeek(rb)
    /\ op' = "Peek"
    /\ UNCHANGED <<limVars, metVars, swVars, lockVars, ringVars, pipeVars>>

NextRing == Push \/ Pop \/ Clear \/ GetAll \/ Peek

SpecRing == InitRing /\ [][NextRing]_vars

\* ------------------------------------- SpecPipe: the assembled program
\* main up to the start of polling: buffer, metrics, limiter and processor
\* built from the configuration, the forwarding loop started. Config.validate
\* puts no condition on rate_limit.burst_size, so a burst of 0 gets here.
InitPipe ==
    /\ \E size \in 1..MaxSize, burst \in 0..MaxBurst :
          /\ rb = NewRingBuffer(size)
          /\ chanCap = size
          /\ rl = NewRateLimiter(1, burst)
          /\ m = [NewMetrics EXCEPT !.bufferCapacity = size]
    /\ live = <<>>
    /\ nextId = 1
    /\ pushOnly = TRUE
    /\ op = "main"
    /\ ret = NoResult
    /\ inputChan = <<>>
    /\ outputChan = <<>>
    /\ epCancelled = FALSE
    /\ chClosed = FALSE
    /\ loopPc = "select"
    /\ loopEvent = Nil
    /\ pollCancelled = FALSE
    /\ cbLeft = 0
    /\ stopPc = "running"
    /\ panicked = FALSE
    /\ admitted = {}
    /\ midWait = FALSE
    /\ WindowNotBuilt
    /\ NoGoroutines
    /\ LimiterNotBuilt
    /\ MetricsNotBuilt

\* PollContinuously delivers a batch of n events: the callback counts the
\* batch as received and enters its loop over the events
CallbackBegin(n) ==
    /\ ~panicked
    /\ ~pollCancelled
    /\ cbLeft = 0
    /\ nextId + n - 1 <= MaxEvents
    /\ m' = [m EXCEPT !.eventsReceived = m.eventsReceived + 1]
    /\ cbLeft' = n
    /\ op' = "CallbackBegin"
    /\ ret' = NoResult
    /\ UNCHANGED <<limVars, metVars, midWait, swVars, lockVars, ringVars, chanCap, inputChan, outputChan, epCancelled, chClosed,
                   loopPc, loopEvent, rl, pollCancelled, stopPc, panicked, admitted>>

\* one iteration of the callback's loop for the event nextId, whose Submit
\* ends with `outcome`
CallbackSubmit(outcome) ==
    /\ op' = "CallbackEvent"
    /\ ret' = SubmitResult(outcome)
    /\ nextId' = nextId + 1
    /\ cbLeft' = cbLeft - 1
    /\ CASE outcome = "sent" ->
              /\ inputChan' = Append(inputChan, nextId)
              /\ rb' = RBPush(rb, nextId)
              /\ live' = Append(Without(live, rb.buffer[rb.head]), nextId)
              /\ m' = [m EXCEPT !.eventsProcessed = m.eventsProcessed + 1,
                                !.bufferSize = RBCount(RBPush(rb, nextId))]
              /\ UNCHANGED panicked
         [] outcome \in {"done", "default"} ->
              /\ m' = [m EXCEPT !.eventsDropped = m.eventsDropped + 1]
              /\ UNCHANGED <<inputChan, rb, live, panicked>>
         [] outcome = "panic" ->
              /\ panicked' = TRUE
              /\ UNCHANGED <<inputChan, rb, live, m>>
    /\ UNCHANGED <<limVars, metVars, midWait, swVars, lockVars, pushOnly, chanCap, outputChan, epCancelled, chClosed, loopPc,
                   loopEvent, rl, pollCancelled, stopPc, admitted>>

CallbackEvent ==
    /\ ~panicked
    /\ cbLeft > 0
    /\ \E outcome \in SubmitOutcomes(inputChan, chanCap, chClosed, epCancelled) :
          CallbackSubmit(outcome)

\* processEvents at its select, receiving the newest queued event instead of
\* the oldest
LoopSelectNewest ==
    /\ ~panicked
    /\ loopPc = "select"
    /\ \/ /\ epCancelled
          /\ loopPc' = "exited"
          /\ UNCHANGED <<inputChan, loopEvent>>
       \/ /\ inputChan # <<>>
          /\ inputChan' = SubSeq(inputChan, 1, Len(inputChan) - 1)
          /\ IF inputChan[Len(inputChan)] = Nil
             THEN UNCHANGED <<loopPc, loopEvent>>
             ELSE loopPc' = "wait" /\ loopEvent' = inputChan[Len(inputChan)]
    /\ op' = "LoopSelect"
    /\ ret' = NoResult
    /\ UNCHANGED <<limVars, metVars, midWait, swVars, lockVars, ringVars, chanCap, outputChan, epCancelled, chClosed, rl, m,
                   pollCancelled, cbLeft, stopPc, panicked, admitted>>

\* processEvents at its select: ctx.Done() or the next queued event
LoopSelect ==
    /\ ~panicked
    /\ loopPc = "select"
    /\ \/ /\ epCancelled
          /\ loopPc' = "exited"
          /\ UNCHANGED <<inputChan, loopEvent>>
       \/ /\ inputChan # <<>>
          /\ inputChan' = Tail(inputChan)
          /\ IF Head(inputChan) = Nil
             THEN UNCHANGED <<loopPc, loopEvent>>
             ELSE loopPc' = "wait" /\ loopEvent' = Head(inputChan)
    /\ op' = "LoopSelect"
    /\ ret' = NoResult
    /\ UNCHANGED <<limVars, metVars, midWait, swVars, lockVars, ringVars, chanCap, outputChan, epCancelled, chClosed, rl, m,
                   pollCancelled, cbLeft, stopPc, panicked, admitted>>

\* rateLimiter.Wait is entered: a burst below 1 or an already cancelled context
\* fails at once and processEvents returns on the error, a token in the bucket
\* is taken at once, otherwise the call sleeps
LoopWaitEnter ==
    /\ ~panicked
    /\ loopPc = "wait"
    /\ IF rl.burst < 1 \/ epCancelled
       THEN loopPc' = "exited" /\ UNCHANGED rl
       ELSE IF rl.tokens >= 1
            THEN loopPc' = "count" /\ rl' = RLTake(rl)
            ELSE loopPc' = "delay" /\ UNCHANGED rl
    /\ op' = "LoopWaitEnter"
    /\ ret' = NoResult
    /\ UNCHANGED <<limVars, metVars, midWait, swVars, lockVars, ringVars, chanCap, inputChan, outputChan, epCancelled, chClosed,
                   loopEvent, m, pollCancelled, cbLeft, stopPc, panicked, admitted>>

\* the sleeping Wait ends: its token has arrived, or the context was cancelled
LoopWaitWake ==
    /\ ~panicked
    /\ loopPc = "delay"
    /\ \/ /\ rl.tokens >= 1
          /\ loopPc' = "count"
          /\ rl' = RLTake(rl)
       \/ /\ epCancelled
          /\ loopPc' = "exited"
          /\ UNCHANGED rl
    /\ op' = "LoopWaitWake"
    /\ ret' = NoResult
    /\ UNCHANGED <<limVars, metVars, midWait, swVars, lockVars, ringVars, chanCap, inputChan, outputChan, epCancelled, chClosed,
                   loopEvent, m, pollCancelled, cbLeft, stopPc, panicked, admitted>>

\* limiter.Wait returned nil: RateLimiter.Wait counts the event and returns nil
LoopWaitCount ==
    /\ ~panicked
    /\ loopPc = "count"
    /\ rl' = RLCountProcessed(rl)
    /\ admitted' = admitted \cup {loopEvent}
    /\ loopPc' = "send"
    /\ op' = "LoopWaitCount"
    /\ ret' = NoResult
    /\ UNCHANGED <<limVars, metVars, midWait, swVars, lockVars, ringVars, chanCap, inputChan, outputChan, epCancelled, chClosed,
                   loopEvent, m, pollCancelled, cbLeft, stopPc, panicked>>

\* the send to outputChan without the ctx.Done() case
LoopSendNoDone ==
    /\ ~panicked
    /\ loopPc = "send"
    /\ Len(outputChan) < chanCap
    /\ outputChan' = Append(outputChan, loopEvent)
    /\ loopPc' = "select"
    /\ op' = "LoopSend"
    /\ ret' = NoResult
    /\ UNCHANGED <<limVars, metVars, midWait, swVars, lockVars, ringVars, chanCap, inputChan, epCancelled, chClosed, loopEvent,
                   rl, m, pollCancelled, cbLeft, stopPc, panicked, admitted>>

\* the inner select: send to outputChan or ctx.Done()
LoopSend ==
    /\ ~panicked
    /\ loopPc = "send"
    /\ \/ /\ Len(outputChan) < chanCap
          /\ outputChan' = Append(outputChan, loopEvent)
          /\ loopPc' = "select"
       \/ /\ epCancelled
          /\ loopPc' = "exited"
          /\ UNCHANGED outputChan
    /\ op' = "LoopSend"
    /\ ret' = NoResult
    /\ UNCHANGED <<limVars, metVars, midWait, swVars, lockVars, ringVars, chanCap, inputChan, epCancelled, chClosed, loopEvent,
                   rl, m, pollCancelled, cbLeft, stopPc, panicked, admitted>>

\* time passes: the bucket gains a token, up to its burst
Refill ==
    /\ ~panicked
    /\ rl.tokens < rl.burst
    /\ rl' = RLRefill(rl)
    /\ op' = "Refill"
    /\ ret' = NoResult
    /\ UNCHANGED <<limVars, metVars, midWait, swVars, lockVars, ringVars, chanCap, inputChan, outputChan, epCancelled, chClosed,
                   loopPc, loopEvent, m, pollCancelled, cbLeft, stopPc, panicked,
                   admitted>>

\* main receives the signal and cancels the poller's context
MainCancel ==
    /\ ~panicked
    /\ stopPc = "running"
    /\ pollCancelled' = TRUE
    /\ stopPc' = "cancelled"
    /\ op' = "MainCancel"
    /\ ret' = NoResult
    /\ UNCHANGED <<limVars, metVars, midWait, swVars, lockVars, ringVars, chanCap, inputChan, outputChan, epCancelled, chClosed,
                   loopPc, loopEvent, rl, m, cbLeft, panicked, admitted>>

\* Stop: ep.cancel(), then wg.Wait()
StopCancel ==
    /\ ~panicked
    /\ stopPc = "cancelled"
    /\ epCancelled' = TRUE
    /\ midWait' = (loopPc = "delay" /\ rl.tokens < 1)
    /\ stopPc' = "waiting"
    /\ op' = "StopCancel"
    /\ ret' = NoResult
    /\ UNCHANGED <<limVars, metVars, swVars, lockVars, ringVars, chanCap, inputChan, outputChan, chClosed, loopPc,
                   loopEvent, rl, m, pollCancelled, cbLeft, panicked, admitted>>

\* Stop: wg.Wait() returns once processEvents has exited; both channels are
\* closed and Stop returns
StopClose ==
    /\ ~panicked
    /\ stopPc = "waiting"
    /\ loopPc = "exited"
    /\ chClosed' = TRUE
    /\ stopPc' = "returned"
    /\ op' = "Stop"
    /\ ret' = NoResult
    /\ UNCHANGED <<limVars, metVars, midWait, swVars, lockVars, ringVars, chanCap, inputChan, outputChan, epCancelled, loopPc,
                   loopEvent, rl, m, pollCancelled, cbLeft, panicked, admitted>>

NextPipe ==
    \/ \E n \in 1..MaxBatch : CallbackBegin(n)
    \/ CallbackEvent
    \/ LoopSelect
    \/ LoopWaitEnter
    \/ LoopWaitWake
    \/ LoopWaitCount
    \/ LoopSend
    \/ Refill
    \/ MainCancel
    \/ StopCancel
    \/ StopClose

SpecPipe == InitPipe /\ [][NextPipe]_vars

\* the forwarding loop's goroutine
LoopStep == LoopSelect \/ LoopWaitEnter \/ LoopWaitWake \/ LoopWaitCount \/ LoopSend

\* SpecPipe where the scheduler keeps running what can run: the forwarding
\* loop takes a step it can take, and main's Stop returns from wg.Wait() once
\* the loop is gone
SpecPipeFair == SpecPipe /\ WF_loopPc(LoopStep) /\ WF_stopPc(StopClose)

\* ------------------------------- SpecWindow: callers of one SlidingWindowBuffer
\* Every method runs under swb.mu, so concurrent callers interleave whole calls.
InitWindow ==
    /\ \E w \in 1..MaxWindow, size \in 1..MaxWinSize : sw = NewSlidingWindowBuffer(w, size)
    /\ now = 0
    /\ arg = 0
    /\ expired = {}
    /\ nextId = 1
    /\ op = "New"
    /\ ret = Nil
    /\ rb = NewRingBuffer(1)
    /\ live = <<>>
    /\ pushOnly = TRUE
    /\ PipeNotBuilt
    /\ NoGoroutines
    /\ LimiterNotBuilt
    /\ MetricsNotBuilt

\* what every SlidingWindowBuffer call leaves alone
WindowFrame == UNCHANGED <<rb, live, pushOnly, pipeIdle, lockVars, limVars, metVars>>

\* the events a sweep at clock reading t removes
Swept(s, t) ==
    {s.events[i].event : i \in 1..Len(s.events)}
        \ {SWRemoveExpired(s, t).events[i].event : i \in 1..Len(SWRemoveExpired(s, t).events)}

\* the calls that sweep before they read
Sweeps == expired' = expired \cup Swept(sw, now)

\* Push of a fresh event; the clock may move on by d between the sweep's
\* time.Now() and the one that stamps the entry
WPush ==
    /\ ~panicked
    /\ Sweeps
    /\ nextId <= MaxWinPush
    /\ \E d \in 0..1 :
          /\ now + d <= MaxTime
          /\ sw' = SWPush(sw, nextId, now, now + d)
          /\ now' = now + d
    /\ nextId' = nextId + 1
    /\ op' = "WPush"
    /\ arg' = nextId
    /\ ret' = Nil
    /\ UNCHANGED panicked
    /\ WindowFrame

WGetAll ==
    /\ ~panicked
    /\ Sweeps
    /\ sw' = SWGetAll(sw, now).sw
    /\ ret' = SWGetAll(sw, now).ret
    /\ op' = "WGetAll"
    /\ arg' = 0
    /\ UNCHANGED <<now, nextId, panicked>>
    /\ WindowFrame

WGetBatch(n) ==
    /\ ~panicked
    /\ Sweeps
    /\ sw' = SWGetBatch(sw, now, n).sw
    /\ ret' = SWGetBatch(sw, now, n).ret
    /\ panicked' = SWGetBatch(sw, now, n).panic
    /\ op' = "WGetBatch"
    /\ arg' = n
    /\ UNCHANGED <<now, nextId>>
    /\ WindowFrame

WPopBatch(n) ==
    /\ ~panicked
    /\ Sweeps
    /\ sw' = SWPopBatch(sw, now, n).sw
    /\ ret' = SWPopBatch(sw, now, n).ret
    /\ panicked' = SWPopBatch(sw, now, n).panic
    /\ op' = "WPopBatch"
    /\ arg' = n
    /\ UNCHANGED <<now, nextId>>
    /\ WindowFrame

WCount ==
    /\ ~panicked
    /\ Sweeps
    /\ sw' = SWCount(sw, now).sw
    /\ ret' = SWCount(sw, now).ret
    /\ op' = "WCount"
    /\ arg' = 0
    /\ UNCHANGED <<now, nextId, panicked>>
    /\ WindowFrame

WIsEmpty ==
    /\ ~panicked
    /\ Sweeps
    /\ sw' = SWIsEmpty(sw, now).sw
    /\ ret' = SWIsEmpty(sw, now).ret
    /\ op' = "WIsEmpty"
    /\ arg' = 0
    /\ UNCHANGED <<now, nextId, panicked>>
    /\ WindowFrame

WClear ==
    /\ ~panicked
    /\ UNCHANGED expired
    /\ sw' = SWClear(sw)
    /\ ret' = Nil
    /\ op' = "WClear"
    /\ arg' = 0
    /\ UNCHANGED <<now, nextId, panicked>>
    /\ WindowFrame

WCountInLastDuration(d) ==
    /\ ~panicked
    /\ UNCHANGED expired
    /\ ret' = SWCountInLastDuration(sw, now, d)
    /\ op' = "WCountInLastDuration"
    /\ arg' = d
    /\ UNCHANGED <<sw, now, nextId, panicked>>
    /\ WindowFrame

\* the range ends tried: the first instant, and two later ones
RangeEnds == {0, 2, 3}

WGetEventsInRange(start, end) ==
    /\ ~panicked
    /\ UNCHANGED expired
    /\ ret' = SWGetEventsInRange(sw, start, end)
    /\ op' = "WGetEventsInRange"
    /\ arg' = <<start, end>>
    /\ UNCHANGED <<sw, now, nextId, panicked>>
    /\ WindowFrame

\* the clock advances
Tick ==
    /\ ~panicked
    /\ UNCHANGED expired
    /\ now < MaxTime
    /\ now' = now + 1
    /\ op' = "Tick"
    /\ arg' = 0
    /\ ret' = Nil
    /\ UNCHANGED <<sw, nextId, panicked>>
    /\ WindowFrame

NextWindow ==
    \/ WPush
    \/ WGetAll
    \/ \E n \in (0 - 1)..MaxN : WGetBatch(n)
    \/ \E n \in (0 - 1)..MaxN : WPopBatch(n)
    \/ WCount
    \/ WIsEmpty
    \/ WClear
    \/ \E d \in 0..MaxN : WCountInLastDuration(d)
    \/ \E start, end \in RangeEnds : WGetEventsInRange(start, end)
    \/ Tick

SpecWindow == InitWindow /\ [][NextWindow]_vars

\* ------------------------------------------------ ring buffer properties
\* the number of Push calls made so far
Pushed == nextId - 1

\* the last n events pushed, in push order
LastPushed(n) == [i \in 1..n |-> Pushed - n + i]

\* C1: on a buffer that has only been pushed to, once at least `size` events
\* have been pushed Count() is the capacity, IsFull() is true and GetAll() is
\* the last `size` pushed events in push order.
C1_PushOnlyKeepsLastC ==
    (pushOnly /\ Pushed >= rb.size) =>
        /\ RBCount(rb) = rb.size
        /\ RBIsFull(rb)
        /\ RBGetAll(rb) = LastPushed(rb.size)

\* C1 witness: capacity 3, four pushes A,B,C,D (1..4) and nothing else.
C1_Witness ==
    /\ pushOnly
    /\ rb.size = 3
    /\ Pushed = 4
    /\ op = "Push"
    /\ RBGetAll(rb) = <<2, 3, 4>>

\* C2: the count field stays within 0..capacity under Push, Pop and Clear.
C2_CountInRange == 0 <= rb.count /\ rb.count <= rb.size

\* C3: whenever the full flag is set, head = tail and every slot holds a live
\* event.
C3_FullMeansAllLive ==
    rb.isFull =>
        /\ rb.head = rb.tail
        /\ \A i \in 0..(rb.size - 1) :
              /\ rb.buffer[i] # Nil
              /\ \E k \in 1..Len(live) : live[k] = rb.buffer[i]

\* C8: Pop returns the oldest live event, and nil exactly when there is none.
C8_PopReturnsOldest ==
    [][op' = "Pop" => ret' = (IF live = <<>> THEN Nil ELSE Head(live))]_vars

\* C9: GetAll returns exactly the live events, oldest to newest, without nil
\* entries, and leaves the buffer as it was.
C9_GetAllIsLive ==
    [][op' = "GetAll" => (ret' = live /\ rb' = rb)]_vars

\* C10: Count() is the number of live events; IsEmpty() holds exactly when
\* that number is 0 and IsFull() exactly when it is the capacity.
C10_CountIsLive ==
    /\ RBCount(rb) = Len(live)
    /\ RBIsEmpty(rb) <=> (Len(live) = 0)
    /\ RBIsFull(rb) <=> (Len(live) = rb.size)

\* ---------------------------------------------------- pipeline properties
\* the step in which the callback calls Submit for the event nextId
SubmitStep == op' = "CallbackEvent" /\ nextId' = nextId + 1

\* the events held in the slots of a ring buffer
Stored(b) == {b.buffer[i] : i \in 0..(b.size - 1)} \ {Nil}

\* C4: an event is in the buffer only after the forwarding loop's Wait has
\* returned success for it.
C4_StoredOnlyIfAdmitted == Stored(rb) \subseteq admitted

\* C5: an event that arrives while the limiter has no token is not stored in
\* the buffer and is counted as dropped.
C5_NoTokenMeansDropped ==
    [][(SubmitStep /\ rl.tokens = 0) =>
          /\ nextId \notin Stored(rb')
          /\ \/ m'.eventsDropped = m.eventsDropped + 1
             \/ rl'.droppedCount = rl.droppedCount + 1]_vars

\* C6: once Stop has returned, Submit returns false, does not panic and sends
\* nothing on the closed input channel.
C6_SubmitAfterStopIsFalse ==
    [][(SubmitStep /\ stopPc = "returned") =>
          /\ ret' = "false"
          /\ ~panicked'
          /\ inputChan' = inputChan]_vars

\* C7: Submit on a full input queue returns false and leaves the queues, the
\* limiter and the event buffer unchanged.
C7_FullQueueSubmitIsFalse ==
    [][(SubmitStep /\ Len(inputChan) = chanCap) =>
          /\ ret' = "false"
          /\ UNCHANGED <<inputChan, outputChan, rl, rb>>]_vars

\* C7 while the channels are open
C7_OpenFullQueueSubmitIsFalse ==
    [][(SubmitStep /\ Len(inputChan) = chanCap /\ ~chClosed) =>
          /\ ret' = "false"
          /\ UNCHANGED <<inputChan, outputChan, rl, rb>>]_vars

\* ------------------------------------------------ sliding window properties
\* the age at clock reading t of the entry te
Age(te, t) == t - te.timestamp

\* the entries of s whose age at t is at most the window
Fresh(s, t) == SelectSeq(s.events, LAMBDA te : Age(te, t) <= s.windowSize)

\* q is p with some oldest entries dropped
IsSuffix(q, p) == Len(q) <= Len(p) /\ q = SubSeq(p, Len(p) - Len(q) + 1, Len(p))

\* the step in which Push is called for the event nextId
WPushStep == op' = "WPush" /\ nextId' = nextId + 1

\* C13 (sliding window half): GetBatch(n) and PopBatch(n) with n <= 0 return an
\* empty sequence, do not crash and leave the (swept) contents as they were.
C13_NonPositiveBatchIsEmpty ==
    [][(op' \in {"WGetBatch", "WPopBatch"} /\ arg' <= 0) =>
          /\ ~panicked'
          /\ ret' = <<>>
          /\ sw'.events = SWRemoveExpired(sw, now).events]_vars

\* C15: the stored sequence never exceeds maxSize, and a Push keeps the
\* newest entries in insertion order, exactly maxSize of them when the
\* length would exceed maxSize.
C15_SizeCapKeepsNewest ==
    /\ [](Len(sw.events) <= sw.maxSize)
    /\ [][WPushStep =>
            /\ IsSuffix(sw'.events,
                        Append(sw.events, [event |-> nextId, timestamp |-> now']))
            /\ sw'.events # <<>>
            /\ (Len(SWRemoveExpired(sw, now).events) + 1 > sw.maxSize
                  => Len(sw'.events) = sw.maxSize)]_vars

\* C15 witness: maxSize 2, three pushes at time 0 (nothing can expire): the
\* first event was dropped by the size cap.
C15_Witness ==
    /\ op = "WPush"
    /\ now = 0
    /\ sw.maxSize = 2
    /\ expired = {}
    /\ EventsOf(sw.events) = <<2, 3>>

\* C16: GetAll, GetBatch, PopBatch, Count and IsEmpty sweep first: what they
\* return or count has age at most the window, what they leave stored too,
\* and the result is empty / zero / true when every entry has expired.
C16_ReadsSweepFirst ==
    [][(op' \in {"WGetAll", "WGetBatch", "WPopBatch", "WCount", "WIsEmpty"} /\ ~panicked') =>
          /\ \A i \in 1..Len(sw'.events) : Age(sw'.events[i], now) <= sw.windowSize
          /\ op' \in {"WGetAll", "WGetBatch", "WPopBatch"} =>
                /\ \A i \in 1..Len(ret') :
                      \E j \in 1..Len(Fresh(sw, now)) : Fresh(sw, now)[j].event = ret'[i]
                /\ Fresh(sw, now) = <<>> => ret' = <<>>
          /\ op' = "WCount" => ret' <= Len(Fresh(sw, now))
          /\ op' = "WIsEmpty" => (Fresh(sw, now) = <<>> => ret' = TRUE)]_vars

\* C16 witness: window 1, one push at time 0, clock at 2, Count() is 0 and
\* the entry was removed by the sweep.
C16_Witness ==
    /\ op = "WCount"
    /\ ret = 0
    /\ sw.windowSize = 1
    /\ now = 2
    /\ nextId = 2
    /\ expired = {1}

\* C17: an entry whose age equals the window exactly is retained by the sweep
\* and returned by the next GetAll.
C17_BoundaryEntryRetained ==
    [][op' = "WGetAll" =>
          \A j \in 1..Len(sw.events) :
              Age(sw.events[j], now) = sw.windowSize =>
                  \E i \in 1..Len(ret') : ret'[i] = sw.events[j].event]_vars

\* C18: timestamps are non-decreasing from front to back, so the entries the
\* sweep treats as expired form a prefix.
C18_TimestampsOrdered ==
    \A i, j \in 1..Len(sw.events) :
        i < j =>
            /\ sw.events[i].timestamp <= sw.events[j].timestamp
            /\ (sw.events[j].timestamp <= now - sw.windowSize
                  => sw.events[i].timestamp <= now - sw.windowSize)

\* C18 witness: two stored entries pushed at different times.
C18_Witness ==
    /\ Len(sw.events) = 2
    /\ sw.events[1].timestamp < sw.events[2].timestamp

\* the smaller of two numbers
Min(a, b) == IF a < b THEN a ELSE b

\* C19: PopBatch(n), n > 0, returns the min(n, Count()) oldest unexpired
\* events in order and an immediately following GetAll returns the rest.
C19_PopBatchSplitsWindow ==
    [][(op' = "WPopBatch" /\ arg' > 0 /\ ~panicked') =>
          LET before == SWGetAll(sw, now).ret
              k == Min(arg', SWCount(sw, now).ret)
          IN  /\ ret' = SubSeq(before, 1, k)
              /\ SWGetAll(sw', now').ret = SubSeq(before, k + 1, Len(before))]_vars

\* C19 witness: two stored events, PopBatch(1) returned the older one.
C19_Witness ==
    /\ op = "WPopBatch"
    /\ arg = 1
    /\ ret = <<1>>
    /\ EventsOf(sw.events) = <<2>>

\* C20: CountInLastDuration(d) is the number of stored entries stamped
\* strictly after now - d, and the call leaves the buffer as it was.
C20_CountInLastDurationExact ==
    [][op' = "WCountInLastDuration" =>
          /\ ret' = Cardinality({i \in 1..Len(sw.events) : sw.events[i].timestamp > now - arg'})
          /\ sw' = sw]_vars

\* C20 witness: an older and a younger entry are stored (the older one not yet
\* swept) and only the younger one is counted.
C20_Witness ==
    /\ op = "WCountInLastDuration"
    /\ arg = 1
    /\ ret = 1
    /\ Len(sw.events) = 2
    /\ sw.events[1].timestamp <= now - 1
    /\ sw.events[2].timestamp = now

\* ------------------------- SpecLock: goroutines sharing one RingBuffer
\* rb.mu is a sync.RWMutex: mu.readers goroutines hold the read lock; mu.wOwner
\* is the goroutine that has called Lock() and not yet Unlock(), which from
\* its call on blocks every new RLock() and holds the lock once the readers
\* have drained.  The lock is not reentrant.

\* the goroutines main starts that use the buffer: the poller callback and an
\* HTTP handler
Goroutines == {"poller", "handler"}

\* the exported methods that take the write lock / the read lock first
LockMethods == {"Push", "Pop", "PopBatch"}
RLockMethods == {"Count", "IsEmpty", "GetAll"}

\* the positions inside PopBatch
PopBatchPcs == {"PopBatch", "PopBatch.pending", "PopBatch.locked", "PopBatch.body"}

\* the for loop of PopBatch: up to n iterations of Pop's body
RECURSIVE PopLoop(_, _, _)
PopLoop(b, n, events) ==
    IF n = 0 \/ (b.count = 0 /\ ~b.isFull)
    THEN [rb |-> b, ret |-> events, panic |-> FALSE]
    ELSE PopLoop(RBPop(b).rb, n - 1, Append(events, RBPop(b).ret))

\* PopBatch from the value Count() returned on: clamp, nil for 0, make (which
\* panics on a negative capacity), loop
RBPopBatchBody(b, n) ==
    LET k == Clamp(n, RBCount(b))
    IN  IF k = 0 THEN [rb |-> b, ret |-> <<>>, panic |-> FALSE]
        ELSE IF k < 0 THEN [rb |-> b, ret |-> <<>>, panic |-> TRUE]
        ELSE PopLoop(b, k, <<>>)

InitLock ==
    /\ \E c \in 1..MaxLockCap : rb = NewRingBuffer(c)
    /\ live = <<>>
    /\ nextId = 1
    /\ pushOnly = TRUE
    /\ op = "New"
    /\ ret = Nil
    /\ mu = [readers |-> 0, wOwner |-> NoOwner]
    /\ gpc = [g \in Goroutines |-> "idle"]
    /\ garg = [g \in Goroutines |-> 0]
    /\ PipeNotBuilt
    /\ WindowNotBuilt
    /\ LimiterNotBuilt
    /\ MetricsNotBuilt

\* what no RingBuffer method touches
LockFrame == UNCHANGED <<swVars, pipeVars, limVars, metVars>>

\* goroutine g calls a method; n is PopBatch's argument
Call(g, method, n) ==
    /\ ~panicked
    /\ gpc[g] = "idle"
    /\ method = "Push" => nextId <= MaxLockPush
    /\ gpc' = [gpc EXCEPT ![g] = method]
    /\ garg' = [garg EXCEPT ![g] = IF method = "PopBatch" THEN n ELSE 0]
    /\ UNCHANGED <<ringVars, op, ret, mu>>
    /\ LockFrame

\* rb.mu.Lock(), first half: g becomes the writer; later RLock() calls wait
LockAnnounce(g) ==
    /\ ~panicked
    /\ gpc[g] \in LockMethods
    /\ mu.wOwner = NoOwner
    /\ mu' = [mu EXCEPT !.wOwner = g]
    /\ gpc' = [gpc EXCEPT ![g] = IF gpc[g] = "Push" THEN "Push.pending"
                                  ELSE IF gpc[g] = "Pop" THEN "Pop.pending"
                                  ELSE "PopBatch.pending"]
    /\ UNCHANGED <<ringVars, op, ret, garg>>
    /\ LockFrame

\* rb.mu.Lock(), second half: the readers have drained, Lock() returns
LockAcquire(g) ==
    /\ ~panicked
    /\ gpc[g] \in {"Push.pending", "Pop.pending", "PopBatch.pending"}
    /\ mu.wOwner = g
    /\ mu.readers = 0
    /\ gpc' = [gpc EXCEPT ![g] = IF gpc[g] = "Push.pending" THEN "Push.locked"
                                  ELSE IF gpc[g] = "Pop.pending" THEN "Pop.locked"
                                  ELSE "PopBatch.locked"]
    /\ UNCHANGED <<ringVars, op, ret, mu, garg>>
    /\ LockFrame

\* rb.mu.RLock() at the top of Count, IsEmpty and GetAll
RLock(g) ==
    /\ ~panicked
    /\ gpc[g] \in RLockMethods
    /\ mu.wOwner = NoOwner
    /\ mu' = [mu EXCEPT !.readers = @ + 1]
    /\ gpc' = [gpc EXCEPT ![g] = IF gpc[g] = "Count" THEN "Count.rlocked"
                                  ELSE IF gpc[g] = "IsEmpty" THEN "IsEmpty.rlocked"
                                  ELSE "GetAll.isEmpty"]
    /\ UNCHANGED <<ringVars, op, ret, garg>>
    /\ LockFrame

\* rb.IsEmpty() or rb.Count() called from inside GetAll or PopBatch: the
\* callee takes the read lock again, reads and releases it
NestedRLock(g) ==
    /\ ~panicked
    /\ gpc[g] \in {"GetAll.isEmpty", "GetAll.count", "PopBatch.locked"}
    /\ mu.wOwner = NoOwner
    /\ gpc' = [gpc EXCEPT ![g] = IF gpc[g] = "PopBatch.locked" THEN "PopBatch.body"
                                  ELSE IF gpc[g] = "GetAll.isEmpty" /\ ~RBIsEmpty(rb)
                                       THEN "GetAll.count"
                                  ELSE "GetAll.ret"]
    /\ UNCHANGED <<ringVars, op, ret, mu, garg>>
    /\ LockFrame

\* the body of Count, IsEmpty or GetAll and the deferred RUnlock()
RUnlock(g) ==
    /\ ~panicked
    /\ gpc[g] \in {"Count.rlocked", "IsEmpty.rlocked", "GetAll.ret"}
    /\ ret' = IF gpc[g] = "Count.rlocked" THEN RBCount(rb)
              ELSE IF gpc[g] = "IsEmpty.rlocked" THEN RBIsEmpty(rb)
              ELSE RBGetAll(rb)
    /\ op' = IF gpc[g] = "Count.rlocked" THEN "Count"
             ELSE IF gpc[g] = "IsEmpty.rlocked" THEN "IsEmpty"
             ELSE "GetAll"
    /\ mu' = [mu EXCEPT !.readers = @ - 1]
    /\ gpc' = [gpc EXCEPT ![g] = "idle"]
    /\ UNCHANGED <<ringVars, garg, panicked>>
    /\ UNCHANGED <<swVars, pipeIdle, limVars, metVars>>

\* the body of Push, Pop or PopBatch under the write lock and the deferred
\* Unlock()
Unlock(g) ==
    /\ ~panicked
    /\ gpc[g] \in {"Push.locked", "Pop.locked", "PopBatch.body"}
    /\ mu.wOwner = g
    /\ \/ /\ gpc[g] = "Push.locked"
          /\ rb' = RBPush(rb, nextId)
          /\ live' = Append(Without(live, rb.buffer[rb.head]), nextId)
          /\ nextId' = nextId + 1
          /\ op' = "Push"
          /\ ret' = Nil
          /\ UNCHANGED <<pushOnly, panicked>>
       \/ /\ gpc[g] = "Pop.locked"
          /\ rb' = RBPop(rb).rb
          /\ ret' = RBPop(rb).ret
          /\ live' = Without(live, RBPop(rb).ret)
          /\ pushOnly' = FALSE
          /\ op' = "Pop"
          /\ UNCHANGED <<nextId, panicked>>
       \/ /\ gpc[g] = "PopBatch.body"
          /\ rb' = RBPopBatchBody(rb, garg[g]).rb
          /\ ret' = RBPopBatchBody(rb, garg[g]).ret
          /\ panicked' = RBPopBatchBody(rb, garg[g]).panic
          /\ live' = SelectSeq(live, LAMBDA e :
                        \A i \in 1..Len(RBPopBatchBody(rb, garg[g]).ret) :
                            RBPopBatchBody(rb, garg[g]).ret[i] # e)
          /\ pushOnly' = FALSE
          /\ op' = "PopBatch"
          /\ UNCHANGED nextId
    /\ mu' = [mu EXCEPT !.wOwner = NoOwner]
    /\ gpc' = [gpc EXCEPT ![g] = "idle"]
    /\ UNCHANGED garg
    /\ UNCHANGED <<swVars, pipeIdle, limVars, metVars>>

NextLock ==
    \E g \in Goroutines :
        \/ \E method \in LockMethods \cup RLockMethods, n \in (0 - 1)..MaxN : Call(g, method, n)
        \/ LockAnnounce(g)
        \/ LockAcquire(g)
        \/ RLock(g)
        \/ NestedRLock(g)
        \/ RUnlock(g)
        \/ Unlock(g)

SpecLock == InitLock /\ [][NextLock]_vars

\* g's next step is enabled
CanStep(g) ==
    IF gpc[g] \in LockMethods THEN mu.wOwner = NoOwner
    ELSE IF gpc[g] \in {"Push.pending", "Pop.pending", "PopBatch.pending"} THEN mu.readers = 0
    ELSE IF gpc[g] \in RLockMethods \cup {"GetAll.isEmpty", "GetAll.count", "PopBatch.locked"}
         THEN mu.wOwner = NoOwner
    ELSE TRUE

\* C11: a PopBatch call that holds the write lock never waits for the buffer's
\* own lock, so it returns to its caller.
C11_PopBatchReturns ==
    \A g \in Goroutines : gpc[g] = "PopBatch.locked" => mu.wOwner # g

\* C12: when PopBatch(n), n > 0, has the lock it goes on to return the
\* min(n, stored) oldest events in order, and GetAll on what it leaves returns
\* the remaining events: popped followed by remaining is the contents before.
C12_PopBatchSplitsRing ==
    \A g \in Goroutines :
        (gpc[g] = "PopBatch.locked" /\ garg[g] > 0) =>
            /\ CanStep(g)
            /\ RBPopBatchBody(rb, garg[g]).ret = SubSeq(live, 1, Min(garg[g], Len(live)))
            /\ RBGetAll(RBPopBatchBody(rb, garg[g]).rb)
                  = SubSeq(live, Min(garg[g], Len(live)) + 1, Len(live))

\* C14: while only Push, Pop, GetAll, Count and IsEmpty are being called, the
\* calls in progress are never all blocked on the buffer's lock.
C14_NoDeadlock ==
    (\A g \in Goroutines : gpc[g] \notin PopBatchPcs) =>
        ((\E g \in Goroutines : gpc[g] # "idle") =>
            (\E h \in Goroutines : gpc[h] # "idle" /\ CanStep(h)))

\* C21: GetEventsInRange(start, end) returns, in insertion order, exactly the
\* stored entries stamped strictly after start and strictly before end, and
\* neither sweeps nor changes the buffer.
C21_RangeIsExclusive ==
    [][op' = "WGetEventsInRange" =>
          /\ \A i \in 1..Len(sw.events) :
                (arg'[1] < sw.events[i].timestamp /\ sw.events[i].timestamp < arg'[2])
                    <=> (\E k \in 1..Len(ret') : ret'[k] = sw.events[i].event)
          /\ \A k \in 1..Len(ret') : \E i \in 1..Len(sw.events) : sw.events[i].event = ret'[k]
          /\ \A k, l \in 1..Len(ret') : k < l => ret'[k] < ret'[l]
          /\ sw' = sw
          /\ expired' = expired]_vars

\* C21 witness: entries stamped 1 and 2 are stored and the range (0, 2)
\* returned the first only: the entry stamped exactly at end is left out.
C21_Witness ==
    /\ op = "WGetEventsInRange"
    /\ arg = <<0, 2>>
    /\ Len(sw.events) = 2
    /\ sw.events[1].timestamp = 1
    /\ sw.events[2].timestamp = 2
    /\ ret = <<sw.events[1].event>>

\* ------------------------------------------ rate.Limiter, the operations
\* a / b rounded up: a timer set for a / b ticks fires at the first clock
\* reading at or after it
CeilDiv(a, b) == (a + b - 1) \div b

\* advance without the cap at burst
LimAdvanceNoCap(l, t) == l.tokens + (t - l.last) * l.limit

\* advance without the refill
LimAdvanceNoRefill(l, t) == Min(l.burst * Token, l.tokens)

\* advance: the tokens available at clock reading t, capped at burst
LimAdvance(l, t) == Min(l.burst * Token, l.tokens + (t - l.last) * l.limit)

\* reserveN that grants without storing the tokens it took
LimReserveNNoStore(l, t, n, mayWait) ==
    LET tokens == LimAdvance(l, t) - n * Token
        wait == IF tokens < 0 THEN CeilDiv(0 - tokens, l.limit) ELSE 0
    IN  IF n <= l.burst /\ (mayWait \/ wait = 0)
        THEN [lim |-> l,
              r   |-> [ok |-> TRUE, tokens |-> n, timeToAct |-> t + wait, limit |-> l.limit]]
        ELSE [lim |-> l, r |-> NoReservation]

\* reserveN(t, n, maxFutureReserve): maxFutureReserve is 0 (mayWait FALSE)
\* for Allow / AllowN and unlimited (mayWait TRUE) for Reserve and Wait
LimReserveN(l, t, n, mayWait) ==
    LET tokens == LimAdvance(l, t) - n * Token
        wait == IF tokens < 0 THEN CeilDiv(0 - tokens, l.limit) ELSE 0
    IN  IF n <= l.burst /\ (mayWait \/ wait = 0)
        THEN [lim |-> [l EXCEPT !.last = t, !.tokens = tokens, !.lastEvent = t + wait],
              r   |-> [ok |-> TRUE, tokens |-> n, timeToAct |-> t + wait, limit |-> l.limit]]
        ELSE [lim |-> l, r |-> NoReservation]

\* SetLimit / SetBurst: the tokens are brought up to t, then the field changes
LimSetLimit(l, t, newLimit) ==
    [l EXCEPT !.last = t, !.tokens = LimAdvance(l, t), !.limit = newLimit]

LimSetBurst(l, t, newBurst) ==
    [l EXCEPT !.last = t, !.tokens = LimAdvance(l, t), !.burst = newBurst]

\* Cancel that gives nothing back
LimCancelKeep(l, r, t) == l

\* Reservation.CancelAt(t): gives back the reserved tokens less those reserved
\* after r (between r.timeToAct and lim.lastEvent)
LimCancel(l, r, t) ==
    IF ~r.ok \/ r.tokens = 0 \/ r.timeToAct < t THEN l
    ELSE LET restoreTokens == r.tokens * Token - r.limit * (l.lastEvent - r.timeToAct)
             prevEvent == r.timeToAct - CeilDiv(r.tokens * Token, r.limit)
         IN  IF restoreTokens <= 0 THEN l
             ELSE [l EXCEPT !.last = t,
                            !.tokens = Min(l.burst * Token, LimAdvance(l, t) + restoreTokens),
                            !.lastEvent = IF r.timeToAct = l.lastEvent /\ prevEvent >= t
                                          THEN prevEvent ELSE @]

\* ----------------------------------------------- RateLimiter, the methods
\* Allow that counts a refusal as processed
RLAllowMiscount(r, l, t) ==
    [rl  |-> [r EXCEPT !.processedCount = @ + 1],
     lim |-> LimReserveN(l, t, 1, FALSE).lim,
     ret |-> LimReserveN(l, t, 1, FALSE).r.ok]

\* Allow that reports a token without taking it
RLAllowNoTake(r, l, t) ==
    [rl  |-> IF LimReserveN(l, t, 1, FALSE).r.ok
             THEN [r EXCEPT !.processedCount = @ + 1]
             ELSE [r EXCEPT !.droppedCount = @ + 1],
     lim |-> l,
     ret |-> LimReserveN(l, t, 1, FALSE).r.ok]

\* Allow: limiter.Allow() and the matching counter, under rl.mu
RLAllow(r, l, t) ==
    [rl  |-> IF LimReserveN(l, t, 1, FALSE).r.ok
             THEN [r EXCEPT !.processedCount = @ + 1]
             ELSE [r EXCEPT !.droppedCount = @ + 1],
     lim |-> LimReserveN(l, t, 1, FALSE).lim,
     ret |-> LimReserveN(l, t, 1, FALSE).r.ok]

\* AllowN that takes what is there when fewer than n tokens are available
RLAllowNPartial(r, l, t, n) ==
    [rl  |-> IF LimReserveN(l, t, n, FALSE).r.ok
             THEN [r EXCEPT !.processedCount = @ + n]
             ELSE [r EXCEPT !.droppedCount = @ + n],
     lim |-> IF LimReserveN(l, t, n, FALSE).r.ok
             THEN LimReserveN(l, t, n, FALSE).lim
             ELSE [l EXCEPT !.last = t, !.tokens = Min(LimAdvance(l, t), 0)],
     ret |-> LimReserveN(l, t, n, FALSE).r.ok]

\* AllowN: limiter.AllowN(time.Now(), n) and the matching counter, under rl.mu
RLAllowN(r, l, t, n) ==
    [rl  |-> IF LimReserveN(l, t, n, FALSE).r.ok
             THEN [r EXCEPT !.processedCount = @ + n]
             ELSE [r EXCEPT !.droppedCount = @ + n],
     lim |-> LimReserveN(l, t, n, FALSE).lim,
     ret |-> LimReserveN(l, t, n, FALSE).r.ok]

\* Reserve: processedCount++ and limiter.Reserve(), under rl.mu
RLReserve(r, l, t) ==
    [rl  |-> [r EXCEPT !.processedCount = @ + 1],
     lim |-> LimReserveN(l, t, 1, TRUE).lim,
     ret |-> LimReserveN(l, t, 1, TRUE).r]

\* ------------------------ SpecLimiter: callers of one RateLimiter, and time
\* Allow, AllowN, Reserve and GetStats run wholly under rl.mu;
\* UpdateLimit holds rl.mu across two calls into the rate.Limiter; Wait calls
\* into the rate.Limiter without rl.mu and only then takes it to count.  The
\* rate.Limiter serialises its own calls.  Wait is called from one goroutine
\* (the forwarding loop), the other methods from any number.

\* the pipeline variables other than the limiter
pipeRest == <<chanCap, inputChan, outputChan, epCancelled, chClosed, loopPc, loopEvent,
              m, pollCancelled, cbLeft, stopPc, panicked, admitted, midWait>>

\* what no RateLimiter method touches
LimiterFrame == UNCHANGED <<ringVars, lockVars, sw, expired, pipeRest, metVars>>

\* the race for the last token that starts at clock reading t, if exactly one
\* whole token is available then
RaceAt(l, t) ==
    IF LimAdvance(l, t) >= Token /\ LimAdvance(l, t) < 2 * Token
    THEN [on |-> TRUE, called |-> FALSE, grants |-> 0]
    ELSE NoRace

\* the race after one more Allow or Wait call has had its answer
RaceCall(race, granted) ==
    IF race.on
    THEN [race EXCEPT !.called = TRUE, !.grants = IF granted THEN @ + 1 ELSE @]
    ELSE race

\* the history after a call other than Allow
NotOnlyAllow(hs) ==
    [hs EXCEPT !.onlyAllow = FALSE, !.allowCalls = 0, !.allowTrue = 0, !.lastTrue = 0]

\* the history after admissions were granted by Allow, AllowN or Wait
Admit(hs, n) == [hs EXCEPT !.admitted = IF hs.reserved THEN @ ELSE @ + n]

InitLimiter ==
    /\ \E rate \in Rates, burst \in Bursts :
          /\ rl = NewRateLimiter(rate, burst)
          /\ lim = NewLimiter(rate, burst)
          /\ hist = [NoHistory EXCEPT !.race = RaceAt(NewLimiter(rate, burst), 0)]
    /\ now = 0
    /\ arg = 0
    /\ op = "New"
    /\ ret = Nil
    /\ wpc = "idle"
    /\ wres = NoReservation
    /\ ctxDone = FALSE
    /\ up = NoUpdate
    /\ rb = NewRingBuffer(1)
    /\ live = <<>>
    /\ nextId = 1
    /\ pushOnly = TRUE
    /\ sw = NewSlidingWindowBuffer(0, 0)
    /\ expired = {}
    /\ NoGoroutines
    /\ chanCap = 0
    /\ inputChan = <<>>
    /\ outputChan = <<>>
    /\ epCancelled = FALSE
    /\ chClosed = FALSE
    /\ loopPc = "exited"
    /\ loopEvent = Nil
    /\ m = NewMetrics
    /\ pollCancelled = TRUE
    /\ cbLeft = 0
    /\ stopPc = "returned"
    /\ panicked = FALSE
    /\ admitted = {}
    /\ midWait = FALSE
    /\ MetricsNotBuilt

Allow ==
    /\ up.pc = "idle"
    /\ rl.processedCount + rl.droppedCount < MaxCount
    /\ rl' = RLAllow(rl, lim, now).rl
    /\ lim' = RLAllow(rl, lim, now).lim
    /\ ret' = RLAllow(rl, lim, now).ret
    /\ hist' = LET granted == RLAllow(rl, lim, now).ret
                   hs == IF granted THEN Admit(hist, 1) ELSE hist
               IN  [hs EXCEPT
                      !.allowCalls = IF hist.onlyAllow THEN @ + 1 ELSE @,
                      !.allowTrue  = IF hist.onlyAllow /\ granted THEN @ + 1 ELSE @,
                      !.lastTrue   = IF hist.onlyAllow /\ granted THEN now ELSE @,
                      !.grants     = IF ~hist.updated /\ granted THEN Append(@, now) ELSE @,
                      !.race       = RaceCall(@, granted)]
    /\ op' = "Allow"
    /\ arg' = 1
    /\ UNCHANGED <<now, wpc, wres, ctxDone, up>>
    /\ LimiterFrame

AllowN(n) ==
    /\ up.pc = "idle"
    /\ rl.processedCount + rl.droppedCount + n <= MaxCount
    /\ rl' = RLAllowN(rl, lim, now, n).rl
    /\ lim' = RLAllowN(rl, lim, now, n).lim
    /\ ret' = RLAllowN(rl, lim, now, n).ret
    /\ hist' = LET hs == IF RLAllowN(rl, lim, now, n).ret THEN Admit(hist, n) ELSE hist
               IN  [NotOnlyAllow(hs) EXCEPT !.race = NoRace]
    /\ op' = "AllowN"
    /\ arg' = n
    /\ UNCHANGED <<now, wpc, wres, ctxDone, up>>
    /\ LimiterFrame

Reserve ==
    /\ up.pc = "idle"
    /\ rl.processedCount + rl.droppedCount < MaxCount
    /\ rl' = RLReserve(rl, lim, now).rl
    /\ lim' = RLReserve(rl, lim, now).lim
    /\ ret' = RLReserve(rl, lim, now).ret.ok
    /\ hist' = [NotOnlyAllow(hist) EXCEPT !.race = NoRace, !.reserved = TRUE, !.admitted = 0]
    /\ op' = "Reserve"
    /\ arg' = 1
    /\ UNCHANGED <<now, wpc, wres, ctxDone, up>>
    /\ LimiterFrame

\* UpdateLimit up to and including limiter.SetLimit; one UpdateLimit call is
\* made in a behaviour, at any point among the other calls
UpdateLimitSetLimit(eventsPerSecond, burstSize) ==
    /\ up.pc = "idle"
    /\ ~hist.updated
    /\ up' = [pc |-> "setBurst", oldRate |-> lim.limit, oldBurst |-> lim.burst]
    /\ rl' = [rl EXCEPT !.eventsPerSec = eventsPerSecond, !.burst = burstSize]
    /\ lim' = LimSetLimit(lim, now, eventsPerSecond)
    /\ hist' = [NotOnlyAllow(hist) EXCEPT !.race = NoRace, !.updated = TRUE, !.grants = <<>>]
    /\ op' = "UpdateLimit.SetLimit"
    /\ ret' = Nil
    /\ arg' = 0
    /\ UNCHANGED <<now, wpc, wres, ctxDone>>
    /\ LimiterFrame

\* UpdateLimit from limiter.SetBurst to the deferred Unlock
UpdateLimitSetBurst ==
    /\ up.pc = "setBurst"
    /\ up' = [up EXCEPT !.pc = "idle"]
    /\ lim' = LimSetBurst(lim, now, rl.burst)
    /\ hist' = [hist EXCEPT !.race = NoRace]
    /\ op' = "UpdateLimit"
    /\ ret' = Nil
    /\ arg' = 0
    /\ UNCHANGED <<now, rl, wpc, wres, ctxDone>>
    /\ LimiterFrame

\* Wait enters limiter.Wait: an error when the burst is below 1 or the
\* context is done already, else a reservation, and sleep unless it acts now
WaitCall ==
    /\ wpc = "idle"
    /\ rl.processedCount + rl.droppedCount < MaxCount
    /\ IF 1 > lim.burst \/ ctxDone
       THEN /\ ret' = IF 1 > lim.burst THEN "exceeds burst" ELSE "cancelled"
            /\ op' = "Wait"
            /\ hist' = NotOnlyAllow(hist)
            /\ UNCHANGED <<lim, wpc, wres>>
       ELSE /\ lim' = LimReserveN(lim, now, 1, TRUE).lim
            /\ wres' = LimReserveN(lim, now, 1, TRUE).r
            /\ wpc' = IF LimReserveN(lim, now, 1, TRUE).r.timeToAct = now
                      THEN "granted" ELSE "sleeping"
            /\ hist' = LET granted == LimReserveN(lim, now, 1, TRUE).r.timeToAct = now
                           hs == IF granted THEN Admit(hist, 1) ELSE hist
                       IN  [NotOnlyAllow(hs) EXCEPT !.race = RaceCall(@, granted)]
            /\ op' = "Wait.reserved"
            /\ ret' = Nil
    /\ arg' = 1
    /\ UNCHANGED <<now, rl, ctxDone, up>>
    /\ LimiterFrame

\* the timer of the sleeping Wait fires: limiter.Wait returns nil
WaitWake ==
    /\ wpc = "sleeping"
    /\ now >= wres.timeToAct
    /\ wpc' = "granted"
    /\ hist' = Admit(hist, 1)
    /\ op' = "Wait.woken"
    /\ ret' = Nil
    /\ arg' = 1
    /\ UNCHANGED <<now, rl, lim, wres, ctxDone, up>>
    /\ LimiterFrame

\* the sleeping Wait sees ctx.Done(): the reservation is cancelled and Wait
\* returns the context's error
WaitCancel ==
    /\ wpc = "sleeping"
    /\ ctxDone
    /\ lim' = LimCancel(lim, wres, now)
    /\ wpc' = "idle"
    /\ wres' = NoReservation
    /\ hist' = [hist EXCEPT !.race = NoRace]
    /\ op' = "Wait"
    /\ ret' = "cancelled"
    /\ arg' = 1
    /\ UNCHANGED <<now, rl, ctxDone, up>>
    /\ LimiterFrame

\* Wait after limiter.Wait returned nil: processedCount++ under rl.mu
WaitCount ==
    /\ wpc = "granted"
    /\ up.pc = "idle"
    /\ rl' = RLCountProcessed(rl)
    /\ wpc' = "idle"
    /\ wres' = NoReservation
    /\ op' = "Wait"
    /\ ret' = "nil"
    /\ arg' = 1
    /\ UNCHANGED <<now, lim, ctxDone, up, hist>>
    /\ LimiterFrame

\* the context passed to Wait is cancelled
CtxCancel ==
    /\ ~ctxDone
    /\ ctxDone' = TRUE
    /\ op' = "CtxCancel"
    /\ ret' = Nil
    /\ arg' = 0
    /\ UNCHANGED <<now, rl, lim, wpc, wres, up, hist>>
    /\ LimiterFrame

\* the clock moves on by one tick
Elapse ==
    /\ now < MaxLimTime
    /\ now' = now + 1
    /\ hist' = [hist EXCEPT
                  !.grants = SelectSeq(@, LAMBDA t : (now + 1 - t) * lim.limit < Token),
                  !.race = IF up.pc = "idle" THEN RaceAt(lim, now + 1) ELSE NoRace]
    /\ op' = "Elapse"
    /\ ret' = Nil
    /\ arg' = 0
    /\ UNCHANGED <<rl, lim, wpc, wres, ctxDone, up>>
    /\ LimiterFrame

NextLimiter ==
    \/ Allow
    \/ \E n \in 0..MaxBatch : AllowN(n)
    \/ Reserve
    \/ \E eventsPerSecond \in Rates, burstSize \in Bursts :
          UpdateLimitSetLimit(eventsPerSecond, burstSize)
    \/ UpdateLimitSetBurst
    \/ WaitCall
    \/ WaitWake
    \/ WaitCancel
    \/ WaitCount
    \/ CtxCancel
    \/ Elapse

SpecLimiter == InitLimiter /\ [][NextLimiter]_vars

\* ------------------------------------------------- limiter properties
\* C22: every admission is decided against at most burst tokens: what the
\* bucket holds after n tokens were granted, plus n, is within the burst, also
\* right after UpdateLimit lowered the burst below the stored tokens.
C22_TokensWithinBurst ==
    [][/\ (op' \in {"Allow", "Reserve"} /\ ret' = TRUE)
            => lim'.tokens + Token <= lim.burst * Token
       /\ (op' = "AllowN" /\ ret' = TRUE)
            => lim'.tokens + arg' * Token <= lim.burst * Token
       /\ op' = "Wait.reserved"
            => lim'.tokens + Token <= lim.burst * Token]_vars

\* C22 witness: a full bucket of burst 2 was lowered to burst 1 and the next
\* Allow was decided against one token, not two.
C22_Witness ==
    /\ op = "Allow"
    /\ ret = TRUE
    /\ up = [pc |-> "idle", oldRate |-> 1, oldBurst |-> 2]
    /\ lim.burst = 1
    /\ now = 0
    /\ rl.processedCount = 1
    /\ lim.tokens = 0

\* C23: while the configuration stays as constructed, the Allow calls that
\* return true within less than one refill interval (1/rate) number at most
\* burst; on a fresh limiter with rate 1 and burst 1, back-to-back Allow calls
\* return true, then false.
C23_AtMostBurstPerInterval ==
    /\ [](~hist.updated =>
            \A i, j \in 1..Len(hist.grants) :
                (i <= j /\ (hist.grants[j] - hist.grants[i]) * lim.limit < Token)
                    => j - i + 1 <= lim.burst)
    /\ [][(op' = "Allow" /\ hist.onlyAllow /\ now = 0 /\ lim.limit = 1 /\ lim.burst = 1)
            => (ret' = (hist.allowCalls = 0))]_vars

\* C23 witness: rate 1, burst 1, two Allow calls at time 0: true, then false.
C23_Witness ==
    /\ op = "Allow"
    /\ ret = FALSE
    /\ hist.onlyAllow
    /\ hist.allowCalls = 2
    /\ hist.grants = <<0>>
    /\ now = 0
    /\ lim.limit = 1
    /\ lim.burst = 1

\* C24: with Allow the only consumer, an Allow call made a full refill time
\* (burst/rate) or more after the last true Allow returns true.
C24_RefilledBucketAdmits ==
    [][(/\ op' = "Allow"
        /\ hist.onlyAllow
        /\ lim.burst >= 1
        /\ (now - hist.lastTrue) * lim.limit >= lim.burst * Token)
          => ret' = TRUE]_vars

\* C24 witness: rate 1, burst 1: Allow emptied the bucket at time 0 and, one
\* second later, Allow returned true again.
C24_Witness ==
    /\ op = "Allow"
    /\ ret = TRUE
    /\ hist.onlyAllow
    /\ hist.allowTrue = 2
    /\ lim.limit = 1
    /\ lim.burst = 1
    /\ now = TicksPerSecond

\* C25: when the clock tick began with exactly one whole token, of the Allow
\* and Wait calls made before the clock moves on exactly one is granted.
C25_LastTokenGrantedOnce ==
    hist.race.on =>
        /\ hist.race.grants <= 1
        /\ hist.race.called => hist.race.grants = 1

\* C25 witness: one token, Allow took it and the Wait called next sleeps.
C25_Witness ==
    /\ hist.race.on
    /\ hist.race.grants = 1
    /\ wpc = "sleeping"
    /\ rl.processedCount = 1
    /\ rl.droppedCount = 0

\* C26: AllowN(n) returns true and takes exactly n tokens when n are
\* available, adding n to processedCount; otherwise it returns false, takes
\* none and adds n to droppedCount.
C26_AllowNAllOrNothing ==
    [][op' = "AllowN" =>
          IF LimAdvance(lim, now) >= arg' * Token
          THEN /\ ret' = TRUE
               /\ LimAdvance(lim', now) = LimAdvance(lim, now) - arg' * Token
               /\ rl'.processedCount = rl.processedCount + arg'
               /\ rl'.droppedCount = rl.droppedCount
          ELSE /\ ret' = FALSE
               /\ LimAdvance(lim', now) = LimAdvance(lim, now)
               /\ rl'.droppedCount = rl.droppedCount + arg'
               /\ rl'.processedCount = rl.processedCount]_vars

\* C26 witness: AllowN(2) was refused with one token in the bucket, which is
\* still there.
C26_Witness ==
    /\ op = "AllowN"
    /\ arg = 2
    /\ ret = FALSE
    /\ LimAdvance(lim, now) = Token
    /\ rl.droppedCount = 2
    /\ rl.processedCount = 0

\* C27: Allow takes one token and counts processed when it returns true, takes
\* none and counts dropped when it returns false; after Allow calls only,
\* processed + dropped is the number of calls and processed the number of
\* true results.
C27_AllowCountsItsResult ==
    /\ [](hist.onlyAllow =>
            /\ rl.processedCount + rl.droppedCount = hist.allowCalls
            /\ rl.processedCount = hist.allowTrue)
    /\ [][op' = "Allow" =>
            IF ret'
            THEN /\ LimAdvance(lim', now) = LimAdvance(lim, now) - Token
                 /\ rl'.processedCount = rl.processedCount + 1
                 /\ rl'.droppedCount = rl.droppedCount
            ELSE /\ lim' = lim
                 /\ rl'.droppedCount = rl.droppedCount + 1
                 /\ rl'.processedCount = rl.processedCount]_vars

\* C27 witness: two Allow calls and nothing else: one granted, and one
\* refused half a second later.
C27_Witness ==
    /\ op = "Allow"
    /\ ret = FALSE
    /\ hist.onlyAllow
    /\ hist.allowCalls = 2
    /\ rl.processedCount = 1
    /\ rl.droppedCount = 1
    /\ now = 1

\* C28: whenever rl.mu is free (GetStats can run) processedCount is the number
\* of admissions Allow, AllowN and Wait have granted.
C28_StatsMatchAdmissions ==
    (up.pc = "idle" /\ ~hist.reserved) => rl.processedCount = hist.admitted

\* the rate.Limiter holds the new rate with the old burst
Mixed == up.pc = "setBurst" /\ lim.limit # up.oldRate /\ lim.burst # rl.burst

\* C29: no Allow or Wait decision is made while the limiter holds the new rate
\* with the old burst.
C29_NoDecisionOnMixedConfig ==
    [][op' \in {"Allow", "Wait.reserved"} => ~Mixed]_vars

\* the step in which a Wait that sleeps ahead of its time to act returns the
\* context's error
WaitCancelledStep ==
    /\ wpc = "sleeping"
    /\ now < wres.timeToAct
    /\ op' = "Wait"
    /\ ret' = "cancelled"

\* once the context is done no Wait call goes to sleep
NoSleepAfterSignal == (ctxDone /\ wpc' = "sleeping") => wpc = "sleeping"

pipeNoMetrics == <<chanCap, inputChan, outputChan, epCancelled, chClosed, loopPc, loopEvent,
                   rl, pollCancelled, cbLeft, stopPc, panicked, admitted, midWait>>

\* NewMetrics: the counters at zero, calculateRateMetrics started
InitMetrics ==
    /\ mt = NoTick
    /\ cb = NoCallback
    /\ op = "NewMetrics"
    /\ ret = Nil
    /\ rb = NewRingBuffer(1)
    /\ live = <<>>
    /\ nextId = 1
    /\ pushOnly = TRUE
    /\ PipeNotBuilt
    /\ WindowNotBuilt
    /\ NoGoroutines
    /\ LimiterNotBuilt

\* what the Metrics methods leave alone
MetricsFrame == UNCHANGED <<ringVars, swVars, lockVars, limVars, pipeNoMetrics, cb, ret>>

IncrementEventsProcessed ==
    /\ m.eventsProcessed < MaxProcessed
    /\ m' = [m EXCEPT !.eventsProcessed = @ + 1]
    /\ op' = "IncrementEventsProcessed"
    /\ UNCHANGED mt
    /\ MetricsFrame

\* the ticker fires: currentProcessed := m.eventsProcessed.Load()
TickLoadProcessed ==
    /\ mt.pc = "idle"
    /\ mt' = [mt EXCEPT !.pc = "loadedProcessed", !.currentProcessed = m.eventsProcessed]
    /\ op' = "TickLoadProcessed"
    /\ UNCHANGED m
    /\ MetricsFrame

\* lastCount := m.lastSecondCount.Load()
TickLoadLast ==
    /\ mt.pc = "loadedProcessed"
    /\ mt' = [mt EXCEPT !.pc = "loadedLast", !.lastCount = m.lastSecondCount]
    /\ op' = "TickLoadLast"
    /\ UNCHANGED m
    /\ MetricsFrame

\* m.eventsPerSecond.Store(currentProcessed - lastCount)
TickStoreRate ==
    /\ mt.pc = "loadedLast"
    /\ m' = [m EXCEPT !.eventsPerSecond = mt.currentProcessed - mt.lastCount]
    /\ mt' = [mt EXCEPT !.pc = "storedRate", !.lastCount = 0]
    /\ op' = "TickStoreRate"
    /\ MetricsFrame

\* m.lastSecondCount.Store(currentProcessed), and back to waiting for the ticker
TickStoreLast ==
    /\ mt.pc = "storedRate"
    /\ m' = [m EXCEPT !.lastSecondCount = mt.currentProcessed]
    /\ mt' = [mt EXCEPT !.pc = "idle", !.currentProcessed = 0]
    /\ op' = "TickStoreLast"
    /\ MetricsFrame

\* Reset, its stores to the event counters
ResetEvents ==
    /\ mt.reset = "idle"
    /\ m' = [m EXCEPT !.eventsReceived = 0, !.eventsProcessed = 0, !.eventsDropped = 0]
    /\ mt' = [mt EXCEPT !.reset = "events"]
    /\ op' = "Reset.events"
    /\ MetricsFrame

\* Reset: m.eventsPerSecond.Store(0)
ResetRate ==
    /\ mt.reset = "events"
    /\ m' = [m EXCEPT !.eventsPerSecond = 0]
    /\ mt' = [mt EXCEPT !.reset = "rate"]
    /\ op' = "Reset.rate"
    /\ MetricsFrame

\* Reset: m.lastSecondCount.Store(0), the remaining stores, and return
ResetLast ==
    /\ mt.reset = "rate"
    /\ m' = [m EXCEPT !.lastSecondCount = 0]
    /\ mt' = [mt EXCEPT !.reset = "idle"]
    /\ op' = "Reset"
    /\ MetricsFrame

NextMetrics ==
    \/ IncrementEventsProcessed
    \/ TickLoadProcessed
    \/ TickLoadLast
    \/ TickStoreRate
    \/ TickStoreLast
    \/ ResetEvents
    \/ ResetRate
    \/ ResetLast

SpecMetrics == InitMetrics /\ [][NextMetrics]_vars

\* C36: the published events-per-second value is never negative.
C36_RateNeverNegative == m.eventsPerSecond >= 0

\* ----- SpecServer: the assembled program with buffer.type sliding_window
\* The poller callback, for each event Submit accepted, pushes it, reads
\* Count() and stores it with SetBufferSize; the HTTP handlers GET /events and
\* GET /events/batch call GetAll and PopBatch on the same buffer.
InitServer ==
    /\ \E w \in 1..MaxWindow, size \in 1..MaxWinSize :
          /\ sw = NewSlidingWindowBuffer(w, size)
          /\ m = [NewMetrics EXCEPT !.bufferCapacity = size]
    /\ now = 0
    /\ arg = 0
    /\ expired = {}
    /\ nextId = 1
    /\ op = "main"
    /\ ret = Nil
    /\ rb = NewRingBuffer(1)
    /\ live = <<>>
    /\ pushOnly = TRUE
    /\ chanCap = 0
    /\ inputChan = <<>>
    /\ outputChan = <<>>
    /\ epCancelled = FALSE
    /\ chClosed = FALSE
    /\ loopPc = "exited"
    /\ loopEvent = Nil
    /\ rl = NewRateLimiter(1, 1)
    /\ pollCancelled = FALSE
    /\ cbLeft = 0
    /\ stopPc = "running"
    /\ panicked = FALSE
    /\ admitted = {}
    /\ midWait = FALSE
    /\ NoGoroutines
    /\ LimiterNotBuilt
    /\ mt = NoTick
    /\ cb = NoCallback

\* what the callback's buffer steps leave alone
ServerFrame == UNCHANGED <<rb, live, pushOnly, pipeNoMetrics, lockVars, limVars, mt>>

\* the callback: slidingWin.Push(event)
SrvPush ==
    /\ ~panicked
    /\ cb.pc = "idle"
    /\ nextId <= MaxWinPush
    /\ Sweeps
    /\ sw' = SWPush(sw, nextId, now, now)
    /\ nextId' = nextId + 1
    /\ cb' = [cb EXCEPT !.pc = "pushed"]
    /\ op' = "SrvPush"
    /\ arg' = nextId
    /\ ret' = Nil
    /\ UNCHANGED <<now, m>>
    /\ ServerFrame

\* the callback: slidingWin.Count()
SrvCount ==
    /\ ~panicked
    /\ cb.pc = "pushed"
    /\ Sweeps
    /\ sw' = SWCount(sw, now).sw
    /\ cb' = [pc |-> "counted", count |-> SWCount(sw, now).ret]
    /\ op' = "SrvCount"
    /\ arg' = 0
    /\ ret' = Nil
    /\ UNCHANGED <<now, nextId, m>>
    /\ ServerFrame

\* the callback: metricsCollector.SetBufferSize(int64(count))
SrvSetBufferSize ==
    /\ ~panicked
    /\ cb.pc = "counted"
    /\ m' = [m EXCEPT !.bufferSize = cb.count]
    /\ cb' = NoCallback
    /\ op' = "SrvSetBufferSize"
    /\ arg' = 0
    /\ ret' = Nil
    /\ UNCHANGED <<sw, now, nextId, expired>>
    /\ ServerFrame

\* handleEventsBatch passes PopBatch a size parsePositiveInt accepted, or 100
NextServer ==
    \/ SrvPush
    \/ SrvCount
    \/ SrvSetBufferSize
    \/ \E n \in 1..MaxN : WPopBatch(n)
    \/ WGetAll
    \/ Tick

SpecServer == InitServer /\ [][NextServer]_vars

\* C38: whenever the callback is not between its Push and its SetBufferSize,
\* the buffer_size metric is the number of events the buffer stores.
C38_BufferSizeMetricIsCount ==
    cb.pc = "idle" => m.bufferSize = Len(sw.events)

\* ------------------------------------------------ shutdown properties
\* C31: once Stop has cancelled the context the forwarding loop exits, from
\* its select, from the limiter's Wait and from a send on a full output
\* channel; Stop then returns, and the channels are closed only after the loop
\* has exited.
C31_StopTerminates ==
    /\ epCancelled ~> (loopPc = "exited")
    /\ (stopPc = "waiting") ~> (stopPc = "returned")
    /\ [](chClosed => loopPc = "exited")

\* C31 witness: the output channel is full, the loop was blocked sending to it
\* and left on ctx.Done(); Stop has closed the channels.
C31_Witness ==
    /\ chClosed
    /\ stopPc = "returned"
    /\ loopPc = "exited"
    /\ Len(outputChan) = chanCap
    /\ loopEvent \in admitted
    /\ \A i \in 1..Len(outputChan) : outputChan[i] # loopEvent

\* C32: when the context is cancelled while processEvents sleeps in
\* rateLimiter.Wait for the event it took, no token being due yet, the loop
\* does nothing but exit: the event is not counted and not sent.
C32_CancelledWaitDropsEvent ==
    [][(loopPc = "delay" /\ midWait) =>
          /\ loopPc' \in {"delay", "exited"}
          /\ rl'.processedCount = rl.processedCount
          /\ outputChan' = outputChan]_vars

\* C33: the events on the output channel are in the order of their Submit
\* calls, each once, each one admitted by the limiter, and all of them older
\* than the event in flight and the events still queued.
C33_OutputInSubmitOrder ==
    /\ \A i, j \in 1..Len(outputChan) : i < j => outputChan[i] < outputChan[j]
    /\ \A i \in 1..Len(outputChan) :
          /\ outputChan[i] \in admitted
          /\ outputChan[i] <= loopEvent
          /\ \A k \in 1..Len(inputChan) : outputChan[i] < inputChan[k]

\* C33 witness: two events were forwarded, a third is queued behind them and
\* at least one Submit in between was refused.
C33_Witness ==
    /\ Len(outputChan) = 2
    /\ Len(inputChan) = 1
    /\ m.eventsDropped >= 1
    /\ inputChan[1] > outputChan[2] + 1

\* C34: processEvents returns only after its context has been cancelled,
\* whatever the configuration the limiter was built from.
C34_LoopExitsOnlyOnCancel == (loopPc = "exited") => epCancelled

\* C35: while the context is not cancelled the forwarding loop is never
\* blocked on anything but rateLimiter.Wait: when it is at its send, the
\* output channel has room.
C35_LoopBlocksOnlyInWait ==
    (~epCancelled /\ loopPc = "send") => Len(outputChan) < chanCap

\* C37: after each completed poller callback events_received is
\* events_processed + events_dropped.
C37_ReceivedIsProcessedPlusDropped ==
    (cbLeft = 0 /\ ~panicked) => m.eventsReceived = m.eventsProcessed + m.eventsDropped

====
